---- MODULE Spec2Model ----
(***************************************************************************)
(* Thai Character Cluster (TCC) segmentation, pythainlp/tokenize/tcc.py.   *)
(* Text is a sequence of Unicode codepoints (integers).  The rule table    *)
(* RE_TCC is translated pattern by pattern; PAT_TCC.match is modelled as a *)
(* backtracking matcher over the ordered alternation.  A call is one       *)
(* invocation of tcc_gen, tcc_pos or tcc; every loop iteration of a call   *)
(* is one action.                                                          *)
(***************************************************************************)
EXTENDS Integers, Sequences, FiniteSets

VARIABLES
  PAT_TCC,  \* the compiled rule table, a module global
  argv,     \* argv[x]: the arguments call x was made with
  op,       \* op[x]: the function call x runs
  w,        \* w[x]: the text parameter
  sep,      \* sep[x]: the separator parameter of tcc
  p,        \* p[x]: the cursor of tcc_gen
  out,      \* out[x]: the clusters tcc_gen has yielded, in order
  pos_p,    \* pos_p[x]: the running sum p of tcc_pos
  p_set,    \* p_set[x]: the set tcc_pos builds and returns
  joined,   \* joined[x]: the string tcc returns
  pc        \* pc[x]: "run" while call x is in its loop, "done" once returned

vars == <<PAT_TCC, argv, op, w, sep, p, out, pos_p, p_set, joined, pc>>

(* ---------------------------- bounds ----------------------------------- *)
\* longest free text over Alphabet
MaxLen == 2
\* most codepoints put around a seed text (before plus after)
MaxPad == 1
\* longest text of a call of the concurrent specification
MaxConcLen == 2

(* ------------------------- codepoints ---------------------------------- *)
KO_KAI == 3585
HO_NOKHUK == 3630
YO_YAK == 3618
WO_WAEN == 3623
O_ANG == 3629
SARA_A == 3632
MAI_HAN_AKAT == 3633
SARA_AA == 3634
SARA_AM == 3635
SARA_I == 3636
SARA_II == 3637
SARA_UEE == 3639
SARA_U == 3640
SARA_UU == 3641
SARA_E == 3648
SARA_AE == 3649
SARA_O == 3650
SARA_AI_MAIMALAI == 3652
MAITAIKHU == 3655
MAI_EK == 3656
MAI_CHATTAWA == 3659
THANTHAKHAT == 3660
NEWLINE == 10
SLASH == 47

(* ----------------------- pattern elements ------------------------------ *)
\* A character class is a sequence of <<lo, hi>> codepoint ranges; an element
\* is a class that is required or optional ("?").
Lit(ch) == [cls |-> <<<<ch, ch>>>>, opt |-> FALSE]

OptLit(ch) == [cls |-> <<<<ch, ch>>>>, opt |-> TRUE]

Set(cls) == [cls |-> cls, opt |-> FALSE]

OptSet(cls) == [cls |-> cls, opt |-> TRUE]

\* .replace("c", "[ko kai - ho nokhuk]")
c == [cls |-> <<<<KO_KAI, HO_NOKHUK>>>>, opt |-> FALSE]

\* variant: the tone class starts one codepoint late and misses mai ek
tNarrow == [cls |-> <<<<MAI_EK + 1, MAI_CHATTAWA>>>>, opt |-> TRUE]

\* .replace("t", "[mai ek - mai chattawa]?")
t == [cls |-> <<<<MAI_EK, MAI_CHATTAWA>>>>, opt |-> TRUE]

\* the class of the lookahead (?=[sara e - sara ai maimalai, ko kai - ho nokhuk]|$)
LookClass == <<<<SARA_E, SARA_AI_MAIMALAI>>, <<KO_KAI, HO_NOKHUK>>>>

NoLook == <<>>

Rule(elems) == [elems |-> elems, la |-> NoLook]

RuleLook(elems) == [elems |-> elems, la |-> LookClass]

\* the rule table, in the order of the source
RE_TCC ==
  << Rule(<<Lit(SARA_E), c, Lit(MAITAIKHU), c>>),
     Rule(<<Lit(SARA_E), c, c, t, Lit(SARA_AA), Lit(SARA_A)>>),
     Rule(<<Lit(SARA_E), c, c, Lit(SARA_II), t, Lit(YO_YAK), Lit(SARA_A)>>),
     RuleLook(<<Lit(SARA_E), c, c, Lit(SARA_II), t, Lit(YO_YAK)>>),
     Rule(<<Lit(SARA_E), c, c, Lit(MAITAIKHU), c>>),
     Rule(<<Lit(SARA_E), c, Lit(SARA_I), c, Lit(THANTHAKHAT), c>>),
     Rule(<<Lit(SARA_E), c, Lit(SARA_I), t, c>>),
     Rule(<<Lit(SARA_E), c, Lit(SARA_II), t, Lit(YO_YAK), OptLit(SARA_A)>>),
     Rule(<<Lit(SARA_E), c, Lit(SARA_UEE), t, Lit(O_ANG), OptLit(SARA_A)>>),
     RuleLook(<<Lit(SARA_E), c,
                Set(<<<<SARA_I, SARA_I>>, <<SARA_II, SARA_II>>,
                      <<SARA_U, SARA_U>>, <<SARA_UU, SARA_UU>>>>),
                t, Lit(YO_YAK)>>),
     Rule(<<Lit(SARA_E), c, t, OptLit(SARA_AA), OptLit(SARA_A)>>),
     Rule(<<c, Lit(MAI_HAN_AKAT), t, Lit(WO_WAEN), Lit(SARA_A)>>),
     Rule(<<c, Set(<<<<MAI_HAN_AKAT, MAI_HAN_AKAT>>, <<SARA_UEE, SARA_UEE>>>>),
            t, c,
            OptSet(<<<<SARA_U, SARA_U>>, <<SARA_I, SARA_I>>,
                     <<SARA_A, SARA_A>>>>)>>),
     Rule(<<c, Set(<<<<SARA_I, SARA_I>>, <<SARA_U, SARA_U>>,
                     <<SARA_UU, SARA_UU>>>>),
            Lit(THANTHAKHAT)>>),
     Rule(<<c, Set(<<<<SARA_A, SARA_UU>>>>), t>>),
     Rule(<<c, Lit(MAITAIKHU)>>),
     Rule(<<c, t, OptSet(<<<<SARA_A, SARA_A>>, <<SARA_AA, SARA_AA>>,
                           <<SARA_AM, SARA_AM>>>>)>>),
     Rule(<<Lit(SARA_AE), c, Lit(MAITAIKHU), c>>),
     Rule(<<Lit(SARA_AE), c, c, Lit(THANTHAKHAT)>>),
     Rule(<<Lit(SARA_AE), c, t, Lit(SARA_A)>>),
     Rule(<<Lit(SARA_AE), c, c, Lit(MAITAIKHU), c>>),
     Rule(<<Lit(SARA_AE), c, c, c, Lit(THANTHAKHAT)>>),
     Rule(<<Lit(SARA_O), c, t, Lit(SARA_A)>>),
     Rule(<<Set(<<<<SARA_E, SARA_AI_MAIMALAI>>>>), c, t>>) >>

(* --------------------------- matching ---------------------------------- *)
NoMatch == -1

InClass(ch, cls) == \E k \in 1..Len(cls) : cls[k][1] <= ch /\ ch <= cls[k][2]

\* "$": the end of the string, or just before a newline that ends it
AtDollar(s, i) == i = Len(s) \/ (i = Len(s) - 1 /\ s[i + 1] = NEWLINE)

\* variant: the lookahead negated, (?![...]|$)
LookNot(la, s, i) ==
  \/ la = NoLook
  \/ ~(\/ i < Len(s) /\ InClass(s[i + 1], la)
       \/ AtDollar(s, i))

\* (?=[...]|$) at offset i of s; nothing is consumed
LookOk(la, s, i) ==
  \/ la = NoLook
  \/ i < Len(s) /\ InClass(s[i + 1], la)
  \/ AtDollar(s, i)

\* Backtracking match of elems[k..] of a rule at offset i of s: the end
\* offset of the match, or NoMatch.  An optional element is tried present
\* first and absent when the rest then fails.
RECURSIVE MatchFrom(_, _, _, _)
MatchFrom(r, k, s, i) ==
  IF k > Len(r.elems)
  THEN IF LookOk(r.la, s, i) THEN i ELSE NoMatch
  ELSE LET e == r.elems[k]
           take == IF i < Len(s) /\ InClass(s[i + 1], e.cls)
                   THEN MatchFrom(r, k + 1, s, i + 1)
                   ELSE NoMatch
       IN IF e.opt /\ take = NoMatch
          THEN MatchFrom(r, k + 1, s, i)
          ELSE take

RuleEnd(r, s) == MatchFrom(r, 1, s, 0)

\* variant: every alternative is tried and the last that matches is kept
RECURSIVE AltLast(_, _, _)
AltLast(pat, k, s) ==
  IF k > Len(pat)
  THEN NoMatch
  ELSE LET rest == AltLast(pat, k + 1, s)
       IN IF rest # NoMatch THEN rest ELSE RuleEnd(pat[k], s)

\* The alternation "|".join(RE_TCC) anchored at offset 0 of s: alternatives
\* are tried left to right and the first that matches gives the match.
RECURSIVE AltFrom(_, _, _)
AltFrom(pat, k, s) ==
  IF k > Len(pat)
  THEN NoMatch
  ELSE LET e == RuleEnd(pat[k], s)
       IN IF e # NoMatch THEN e ELSE AltFrom(pat, k + 1, s)

\* PAT_TCC.match(s): the end of the span of the match, or NoMatch for None
PatMatch(pat, s) == AltFrom(pat, 1, s)

\* re.compile("|".join(RE_TCC))
Compile(rules) == rules

(* ---------------------------- strings ---------------------------------- *)
Min(a, b) == IF a < b THEN a ELSE b

\* s[a:b] for 0 <= a; b is clamped to the length as Python clamps it
Slice(s, a, b) == SubSeq(s, a + 1, Min(b, Len(s)))

RECURSIVE Concat(_)
Concat(ss) == IF ss = <<>> THEN <<>> ELSE Head(ss) \o Concat(Tail(ss))

\* variant: the separator is put after every item, the last one too
RECURSIVE JoinTrailing(_, _)
JoinTrailing(s, items) ==
  IF items = <<>> THEN <<>>
  ELSE items[1] \o s \o JoinTrailing(s, Tail(items))

\* sep.join(items)
RECURSIVE Join(_, _)
Join(s, items) ==
  IF items = <<>> THEN <<>>
  ELSE IF Len(items) = 1 THEN items[1]
  ELSE items[1] \o s \o Join(s, Tail(items))

(* ----------------------------- inputs ---------------------------------- *)
\* the text of test_tcc and its expected result
Prathet == <<3611, 3619, 3632, 3648, 3607, 3624, 3652, 3607, 3618>>

PrathetJoined ==
  <<3611, 47, 3619, 3632, 47, 3648, 3607, 47, 3624, 47, 3652, 3607, 47, 3618>>

Abc123 == <<97, 98, 99, 49, 50, 51>>

Abc123Joined == <<97, 47, 98, 47, 99, 47, 49, 47, 50, 47, 51>>

KhutLum == <<3586, 3640, 3604, 3627, 3621, 3640, 3617>>

\* Thai text around a Latin letter
Mixed == <<3585, 3636, 3660, 97, 3585, 3634>>

\* the codepoints of free texts: one of every class that the rules able to
\* match within a short text tell apart, and a non-Thai letter
Alphabet ==
  { KO_KAI, MAI_EK, SARA_E, SARA_AE, SARA_O, SARA_AI_MAIMALAI, SARA_A,
    MAI_HAN_AKAT, SARA_AA, SARA_AM, SARA_I, SARA_II, MAITAIKHU, THANTHAKHAT,
    Abc123[1] }

Strings(n) == UNION { [1..k -> Alphabet] : k \in 0..n }

\* one text for every rule of the table, in the order of the table
RuleTexts ==
  { <<3648, 3585, 3655, 3585>>,
    <<3648, 3585, 3585, 3656, 3634, 3632>>,
    <<3648, 3585, 3585, 3637, 3656, 3618, 3632>>,
    <<3648, 3585, 3585, 3637, 3656, 3618>>,
    <<3648, 3585, 3585, 3655, 3585>>,
    <<3648, 3585, 3636, 3585, 3660, 3585>>,
    <<3648, 3585, 3636, 3656, 3585>>,
    <<3648, 3585, 3637, 3656, 3618, 3632>>,
    <<3648, 3585, 3639, 3656, 3629, 3632>>,
    <<3648, 3585, 3640, 3656, 3618>>,
    <<3648, 3585, 3656, 3634, 3632>>,
    <<3585, 3633, 3656, 3623, 3632>>,
    <<3585, 3633, 3656, 3585, 3640>>,
    <<3585, 3636, 3660>>,
    <<3585, 3638, 3656>>,
    <<3585, 3655>>,
    <<3585, 3656, 3635>>,
    <<3649, 3585, 3655, 3585>>,
    <<3649, 3585, 3585, 3660>>,
    <<3649, 3585, 3656, 3632>>,
    <<3649, 3585, 3585, 3655, 3585>>,
    <<3649, 3585, 3585, 3585, 3660>>,
    <<3650, 3585, 3656, 3632>>,
    <<3652, 3585, 3656>> }

\* the texts of the tests and of the __main__ block, and mixed text
Seeds ==
  { Prathet, KhutLum, Abc123, Mixed,
    <<3649, 3617, 3623, 3585, 3636, 3609>> }

\* the codepoints put before and after a rule text: a consonant, a tone
\* mark, a leading vowel, a following vowel, a non-Thai letter, the newline
PadAlphabet == { KO_KAI, MAI_EK, SARA_E, SARA_A, Abc123[1], NEWLINE }

Pads == UNION { [1..k -> PadAlphabet] : k \in 0..MaxPad }

Padded ==
  { x[1] \o x[2] \o x[3] : x \in
      { y \in Pads \X RuleTexts \X Pads : Len(y[1]) + Len(y[3]) <= MaxPad } }

Texts == Strings(MaxLen) \cup Padded \cup Seeds

DefaultSep == <<SLASH>>

\* separators passed explicitly
Seps == { <<>>, <<44, 32>> }

\* argument lists of a call: the text, and for tcc the optional separator
Args(op_, texts) ==
  IF op_ = "tcc"
  THEN { <<x>> : x \in texts } \cup { <<x, s>> : <<x, s>> \in texts \X Seps }
  ELSE { <<x>> : x \in texts }

Ops == { "tcc_gen", "tcc_pos", "tcc" }

(* ---------------------------- the calls -------------------------------- *)
\* the state after module import and the entry of the calls: ops[x] is the
\* function called by call x and args[x] its argument list
Entry(ops, args) ==
  /\ PAT_TCC = Compile(RE_TCC)
  /\ op = ops
  /\ argv = args
  /\ w = [x \in DOMAIN ops |-> args[x][1]]
  /\ sep = [x \in DOMAIN ops |->
             IF Len(args[x]) = 2 THEN args[x][2] ELSE DefaultSep]
  /\ p = [x \in DOMAIN ops |-> 0]
  /\ out = [x \in DOMAIN ops |-> <<>>]
  /\ pos_p = [x \in DOMAIN ops |-> 0]
  /\ p_set = [x \in DOMAIN ops |-> {}]
  /\ joined = [x \in DOMAIN ops |-> <<>>]
  /\ pc = [x \in DOMAIN ops |-> "run"]

\* one call
Init == \E o \in Ops : \E a \in Args(o, Texts) : Entry(<<o>>, <<a>>)

Calls == DOMAIN pc

\* variant: while p <= len(w)
LoopCondLe(x) == p[x] <= Len(w[x])

\* while p < len(w)
LoopCond(x) == p[x] < Len(w[x])

\* variant: the end of the span taken one too far
ClusterLenPlus(pat, s) ==
  LET m == PatMatch(pat, s)
  IN IF m # NoMatch THEN m + 1 ELSE 1

\* the length n of the cluster at the cursor: m.span()[1], or 1
ClusterLen(pat, s) ==
  LET m == PatMatch(pat, s)
  IN IF m # NoMatch THEN m ELSE 1

\* variant: p += 1
AdvanceOne(q, n) == q + 1

\* variant: p += n + 1
AdvanceOver(q, n) == q + n + 1

\* the cursor after a cluster of length n
Advance(q, n) == q + n

\* variant: the cursor is one module-level variable that every scan writes
GenBodyShared(x) ==
  LET n == ClusterLen(PAT_TCC, Slice(w[x], p[x], Len(w[x])))
  IN /\ out' = [out EXCEPT ![x] = Append(@, Slice(w[x], p[x], p[x] + n))]
     /\ p' = [y \in DOMAIN p |-> Advance(p[x], n)]

\* one iteration of the body of tcc_gen: yield w[p : p + n]; p += n
GenBody(x) ==
  LET n == ClusterLen(PAT_TCC, Slice(w[x], p[x], Len(w[x])))
  IN /\ out' = [out EXCEPT ![x] = Append(@, Slice(w[x], p[x], p[x] + n))]
     /\ p' = [p EXCEPT ![x] = Advance(@, n)]

\* next() on tcc_gen(w) by a caller that iterates it
Yield(x) ==
  /\ pc[x] = "run" /\ op[x] = "tcc_gen"
  /\ LoopCond(x)
  /\ GenBody(x)
  /\ UNCHANGED <<PAT_TCC, argv, op, w, sep, pos_p, p_set, joined, pc>>

\* tcc_gen(w) is exhausted
GenStop(x) ==
  /\ pc[x] = "run" /\ op[x] = "tcc_gen"
  /\ ~LoopCond(x)
  /\ pc' = [pc EXCEPT ![x] = "done"]
  /\ UNCHANGED <<PAT_TCC, argv, op, w, sep, p, out, pos_p, p_set, joined>>

\* variant: p += 1, the clusters counted instead of their codepoints
PosAddOne(q, cl) == q + 1

\* the offset added to p_set for a cluster cl when the running sum is q
PosAdd(q, cl) == q + Len(cl)

\* one iteration of the for loop of tcc_pos
PosIter(x) ==
  /\ pc[x] = "run" /\ op[x] = "tcc_pos"
  /\ LoopCond(x)
  /\ GenBody(x)
  /\ LET cl == out'[x][Len(out'[x])]
     IN /\ pos_p' = [pos_p EXCEPT ![x] = PosAdd(@, cl)]
        /\ p_set' = [p_set EXCEPT ![x] = @ \cup {pos_p'[x]}]
  /\ UNCHANGED <<PAT_TCC, argv, op, w, sep, joined, pc>>

\* return p_set
PosReturn(x) ==
  /\ pc[x] = "run" /\ op[x] = "tcc_pos"
  /\ ~LoopCond(x)
  /\ pc' = [pc EXCEPT ![x] = "done"]
  /\ UNCHANGED <<PAT_TCC, argv, op, w, sep, p, out, pos_p, p_set, joined>>

\* sep.join draws one more cluster from tcc_gen(w)
JoinIter(x) ==
  /\ pc[x] = "run" /\ op[x] = "tcc"
  /\ LoopCond(x)
  /\ GenBody(x)
  /\ UNCHANGED <<PAT_TCC, argv, op, w, sep, pos_p, p_set, joined, pc>>

\* return sep.join(tcc_gen(w))
TccReturn(x) ==
  /\ pc[x] = "run" /\ op[x] = "tcc"
  /\ ~LoopCond(x)
  /\ joined' = [joined EXCEPT ![x] = Join(sep[x], out[x])]
  /\ pc' = [pc EXCEPT ![x] = "done"]
  /\ UNCHANGED <<PAT_TCC, argv, op, w, sep, p, out, pos_p, p_set>>

Next ==
  \E x \in Calls :
    \/ Yield(x)
    \/ GenStop(x)
    \/ PosIter(x)
    \/ PosReturn(x)
    \/ JoinIter(x)
    \/ TccReturn(x)

Spec == Init /\ [][Next]_vars

\* two calls whose iterations interleave
ConcAlphabet == { KO_KAI, MAI_EK }

ConcTexts ==
  UNION { [1..k -> ConcAlphabet] : k \in 0..MaxConcLen }
    \cup { Mixed, Prathet }

InitConc ==
  \E o1 \in Ops, o2 \in Ops :
    \E a1 \in { <<x>> : x \in ConcTexts }, a2 \in { <<x>> : x \in ConcTexts } :
      Entry(<<o1, o2>>, <<a1, a2>>)

SpecConc == InitConc /\ [][Next]_vars

\* one call by a caller that iterates to the end: the loop keeps running
FairTexts == ConcTexts \cup Seeds \cup RuleTexts

InitFair == \E o \in Ops : \E a \in Args(o, FairTexts) : Entry(<<o>>, <<a>>)

SpecFair == InitFair /\ [][Next]_vars /\ WF_vars(Next)

(* ------------------------ notions of the claims ------------------------ *)
Done(x) == pc[x] = "done"

\* the number of codepoints in the first k clusters
Sum(ss, k) == Len(Concat(SubSeq(ss, 1, k)))

\* the cluster yielded last, the offset it starts at, the text from there on
Last(x) == out[x][Len(out[x])]

Start(x) == Sum(out[x], Len(out[x]) - 1)

Rest(x) == Slice(w[x], Start(x), Len(w[x]))

\* the rules of the table that match at offset 0 of s
Hits(s) == { i \in 1..Len(RE_TCC) : RuleEnd(RE_TCC[i], s) # NoMatch }

Lowest(S) == CHOOSE i \in S : \A j \in S : i <= j

IsConsonant(ch) == KO_KAI <= ch /\ ch <= HO_NOKHUK

IsTone(ch) == MAI_EK <= ch /\ ch <= MAI_CHATTAWA

IsFollowingVowel(ch) == SARA_A <= ch /\ ch <= SARA_UU

IsLeadingVowel(ch) == SARA_E <= ch /\ ch <= SARA_AI_MAIMALAI

(* ------------------------------- C1 ------------------------------------ *)
\* C1: the clusters yielded so far, concatenated in order, are the text up
\* to the cursor, and all of the text once the scan has ended: no gap, no
\* overlap, no dropped and no duplicated codepoint.
C1_Lossless ==
  \A x \in Calls :
    /\ Len(Concat(out[x])) = p[x]
    /\ Concat(out[x]) = Slice(w[x], 0, p[x])
    /\ Done(x) => Concat(out[x]) = w[x]

\* a finished scan of mixed text: a cluster of several codepoints and three
\* clusters or more
C1_Witness ==
  \E x \in Calls :
    /\ Done(x) /\ Len(out[x]) >= 3
    /\ \E k \in 1..Len(out[x]) : Len(out[x][k]) >= 3
    /\ \E k \in 1..Len(w[x]) : ~IsConsonant(w[x][k]) /\ w[x][k] < KO_KAI

(* ------------------------------- C2 ------------------------------------ *)
\* C2: the cluster yielded at a scan position is the non-empty prefix
\* matched by the lowest-index rule of the table that matches there, of
\* that rule's match length whatever the later rules match, and it is the
\* single codepoint at the position when no rule matches.
C2_FirstRuleWins ==
  \A x \in Calls :
    out[x] # <<>> =>
      LET s == Rest(x)
          h == Hits(s)
          n == Len(Last(x))
      IN /\ n >= 1
         /\ Last(x) = SubSeq(s, 1, n)
         /\ IF h = {} THEN n = 1 ELSE n = RuleEnd(RE_TCC[Lowest(h)], s)

\* two rules match at the position with different lengths and the cluster
\* has the length of the earlier one
C2_Witness ==
  \E x \in Calls :
    /\ out[x] # <<>>
    /\ \E i \in Hits(Rest(x)) : \E j \in Hits(Rest(x)) :
         /\ i < j
         /\ i = Lowest(Hits(Rest(x)))
         /\ RuleEnd(RE_TCC[i], Rest(x)) # RuleEnd(RE_TCC[j], Rest(x))
         /\ Len(Last(x)) = RuleEnd(RE_TCC[i], Rest(x))

(* ------------------------------- C3 ------------------------------------ *)
LookRules == { i \in 1..Len(RE_TCC) : RE_TCC[i].la # NoLook }

\* the consuming part of a rule
Body(r) == [r EXCEPT !.la = NoLook]

\* the match of the first rule after rule i, or the fallback length
AfterRule(i, s) ==
  LET h == { j \in Hits(s) : j > i }
  IN IF h = {} THEN 1 ELSE RuleEnd(RE_TCC[Lowest(h)], s)

\* the cluster yielded last is the match of a rule with a lookahead
ByLookRule(x) ==
  /\ out[x] # <<>>
  /\ Hits(Rest(x)) # {}
  /\ Lowest(Hits(Rest(x))) \in LookRules

\* C3 as stated: a rule with a lookahead matches only when the codepoint
\* after the matched prefix is neither a leading vowel nor a consonant and
\* the prefix does not end the input.
C3_Original ==
  \A x \in Calls :
    ByLookRule(x) =>
      /\ p[x] < Len(w[x])
      /\ ~IsLeadingVowel(w[x][p[x] + 1])
      /\ ~IsConsonant(w[x][p[x] + 1])

\* C3 amended: a rule with a lookahead, reached because no earlier rule
\* matches, counts as a match exactly when its consuming part matches and
\* the codepoint after that prefix is a leading vowel or a consonant, or the
\* prefix ends the input or is followed by nothing but a final newline; the
\* cluster is then the prefix alone (the lookahead codepoint is left for the
\* next cluster).  Otherwise the rule is skipped and the cluster is that of
\* the first later rule that matches, or the single codepoint.
C3_Lookahead ==
  \A x \in Calls :
    out[x] # <<>> =>
      LET s == Rest(x)
          n == Len(Last(x))
      IN \A i \in LookRules :
           (\A j \in 1..(i - 1) : RuleEnd(RE_TCC[j], s) = NoMatch) =>
             LET b == RuleEnd(Body(RE_TCC[i]), s)
                 ok == /\ b # NoMatch
                       /\ \/ b = Len(s)
                          \/ b = Len(s) - 1 /\ s[b + 1] = NEWLINE
                          \/ b < Len(s) /\ \/ IsLeadingVowel(s[b + 1])
                                           \/ IsConsonant(s[b + 1])
             IN IF ok
                THEN n = b /\ Last(x)[n] = YO_YAK
                ELSE n = AfterRule(i, s)

\* a rule with a lookahead gave the cluster and a consonant or leading vowel
\* follows it, unconsumed
C3_Witness ==
  \E x \in Calls :
    /\ ByLookRule(x)
    /\ p[x] < Len(w[x])
    /\ IsConsonant(w[x][p[x] + 1]) \/ IsLeadingVowel(w[x][p[x] + 1])

(* ------------------------------- C4 ------------------------------------ *)
\* C4: the set returned by tcc_pos is the set of the running sums of the
\* cluster lengths; the sums increase strictly, 0 is no member, every member
\* is between 1 and len(text) and len(text) is the largest member of the
\* set of a non-empty text.
C4_Boundaries ==
  \A x \in Calls :
    (Done(x) /\ op[x] = "tcc_pos") =>
      /\ p_set[x] = { Sum(out[x], k) : k \in 1..Len(out[x]) }
      /\ \A k \in 1..(Len(out[x]) - 1) : Sum(out[x], k) < Sum(out[x], k + 1)
      /\ Cardinality(p_set[x]) = Len(out[x])
      /\ 0 \notin p_set[x]
      /\ \A m \in p_set[x] : 1 <= m /\ m <= Len(w[x])
      /\ w[x] # <<>> => Len(w[x]) \in p_set[x]

\* tcc_pos returned for a text of several clusters, one of them longer than
\* one codepoint
C4_Witness ==
  \E x \in Calls :
    /\ Done(x) /\ op[x] = "tcc_pos"
    /\ Cardinality(p_set[x]) >= 3
    /\ Cardinality(p_set[x]) < Len(w[x])

(* ------------------------------- C5 ------------------------------------ *)
\* the consonant at index i (from 0) is directly followed by a tone mark
ConsTone(x, i) ==
  /\ i + 2 <= Len(w[x])
  /\ IsConsonant(w[x][i + 1])
  /\ IsTone(w[x][i + 2])

\* C5 as stated: no offset of tcc_pos lies between a consonant and the tone
\* mark that directly follows it.
C5_Original ==
  \A x \in Calls :
    (Done(x) /\ op[x] = "tcc_pos") =>
      \A i \in 0..(Len(w[x]) - 2) : ConsTone(x, i) => (i + 1) \notin p_set[x]

\* C5 amended: no offset of tcc_pos lies between a consonant that begins a
\* cluster (at offset 0 or at a boundary) and the tone mark that directly
\* follows it.
C5_ToneKept ==
  \A x \in Calls :
    (Done(x) /\ op[x] = "tcc_pos") =>
      \A i \in 0..(Len(w[x]) - 2) :
        (ConsTone(x, i) /\ (i = 0 \/ i \in p_set[x])) => (i + 1) \notin p_set[x]

\* tcc_pos returned for a text where a consonant at a boundary inside the
\* text carries a tone mark
C5_Witness ==
  \E x \in Calls :
    /\ Done(x) /\ op[x] = "tcc_pos"
    /\ \E i \in 1..(Len(w[x]) - 2) : ConsTone(x, i) /\ i \in p_set[x]

(* ------------------------------- C6 ------------------------------------ *)
\* outside the consonants, the vowels (maitaikhu counted with them) and the
\* tone marks
OutsideThai(ch) ==
  /\ ~IsConsonant(ch)
  /\ ~IsFollowingVowel(ch)
  /\ ~IsLeadingVowel(ch)
  /\ ch # MAITAIKHU
  /\ ~IsTone(ch)

\* C6 as stated: a codepoint outside the Thai consonant, vowel and tone-mark
\* ranges is a cluster on its own.
C6_Original ==
  \A x \in Calls :
    \A k \in 1..Len(out[x]) :
      (\E i \in 1..Len(out[x][k]) : OutsideThai(out[x][k][i])) =>
        Len(out[x][k]) = 1

\* C6 amended: a codepoint outside the Thai consonant, vowel and tone-mark
\* ranges and other than maitaikhu and thanthakhat, the two signs the rules
\* name, is a cluster on its own, never merged with the codepoint before or
\* after it; tcc("abc123") is "a/b/c/1/2/3".
C6_ForeignAlone ==
  \A x \in Calls :
    /\ \A k \in 1..Len(out[x]) :
         (\E i \in 1..Len(out[x][k]) :
            OutsideThai(out[x][k][i]) /\ out[x][k][i] # THANTHAKHAT) =>
           Len(out[x][k]) = 1
    /\ (Done(x) /\ op[x] = "tcc" /\ argv[x] = <<Abc123>>) =>
         joined[x] = Abc123Joined

\* a finished scan with a foreign codepoint between two Thai clusters
C6_Witness ==
  \E x \in Calls :
    /\ Done(x)
    /\ \E k \in 2..(Len(out[x]) - 1) :
         /\ out[x][k] = <<Abc123[1]>>
         /\ IsConsonant(out[x][k + 1][1])
         /\ Len(out[x][k - 1]) >= 2

(* ------------------------------- C7 ------------------------------------ *)
\* the offset in the joined string of cluster k
At(x, k) == Sum(out[x], k - 1) + (k - 1) * Len(sep[x])

\* C7: the string returned by tcc is the clusters in order with sep exactly
\* between consecutive clusters, none before the first and none after the
\* last; sep is "/" when the call gives none; tcc of the text of test_tcc
\* is the string the test expects.
C7_Joined ==
  \A x \in Calls :
    /\ (op[x] = "tcc" /\ Len(argv[x]) = 1) => sep[x] = <<SLASH>>
    /\ (op[x] = "tcc" /\ Len(argv[x]) = 2) => sep[x] = argv[x][2]
    /\ (Done(x) /\ op[x] = "tcc") =>
         LET n == Len(out[x])
             L == Len(sep[x])
         IN /\ Len(joined[x]) = IF n = 0 THEN 0 ELSE Len(w[x]) + (n - 1) * L
            /\ \A k \in 1..n :
                 SubSeq(joined[x], At(x, k) + 1, At(x, k) + Len(out[x][k]))
                   = out[x][k]
            /\ \A k \in 1..(n - 1) :
                 SubSeq(joined[x], At(x, k) + Len(out[x][k]) + 1,
                        At(x, k + 1)) = sep[x]
            /\ argv[x] = <<Prathet>> => joined[x] = PrathetJoined

\* tcc returned for the text of test_tcc, called without a separator
C7_Witness ==
  \E x \in Calls :
    Done(x) /\ op[x] = "tcc" /\ argv[x] = <<Prathet>> /\ Len(out[x]) = 6

(* ------------------------------- C8 ------------------------------------ *)
\* C8: the cursor never passes len(text), there are never more clusters
\* than codepoints, every iteration yields one cluster of at least one
\* codepoint and moves the cursor forward by its length, and the scan ends,
\* with the cursor at len(text).
C8_Terminates ==
  /\ [](\A x \in Calls :
          /\ p[x] <= Len(w[x])
          /\ Len(out[x]) <= Len(w[x])
          /\ Done(x) => p[x] = Len(w[x]))
  /\ [][\A x \in Calls :
          out'[x] # out[x] =>
            /\ Len(out'[x]) = Len(out[x]) + 1
            /\ Len(out'[x][Len(out'[x])]) >= 1
            /\ p'[x] = p[x] + Len(out'[x][Len(out'[x])])]_vars
  /\ <>(\A x \in Calls : Done(x))

\* a scan of a text of several codepoints has ended
C8_Witness ==
  \E x \in Calls : Done(x) /\ Len(w[x]) >= 4 /\ Len(out[x]) >= 2

(* ------------------------------- C9 ------------------------------------ *)
\* C9: on the empty text a call yields no cluster and returns, tcc_pos the
\* empty set and tcc the empty string whatever the separator.
C9_Empty ==
  \A x \in Calls :
    w[x] = <<>> =>
      /\ out[x] = <<>>
      /\ p_set[x] = {}
      /\ joined[x] = <<>>
      /\ pc[x] = "run" =>
           \/ op[x] = "tcc_gen" /\ ENABLED GenStop(x)
           \/ op[x] = "tcc_pos" /\ ENABLED PosReturn(x)
           \/ op[x] = "tcc" /\ ENABLED TccReturn(x)

\* tcc returned for the empty text and a separator that is not empty
C9_Witness ==
  \E x \in Calls :
    Done(x) /\ op[x] = "tcc" /\ w[x] = <<>> /\ Len(sep[x]) = 2

(* ------------------------------- C10 ----------------------------------- *)
\* the clusters of a scan of text from offset q that runs alone
RECURSIVE Alone(_, _)
Alone(text, q) ==
  IF q >= Len(text)
  THEN <<>>
  ELSE LET n == ClusterLen(RE_TCC, Slice(text, q, Len(text)))
       IN <<Slice(text, q, q + n)>> \o Alone(text, q + n)

\* C10: however the iterations of the calls interleave, the clusters a call
\* has yielded are the first clusters of the scan of its text run alone, all
\* of them once the call has ended, and the rule table is the table that was
\* compiled at import.
C10_Isolated ==
  /\ PAT_TCC = Compile(RE_TCC)
  /\ \A x \in Calls :
       LET a == Alone(w[x], 0)
       IN /\ Len(out[x]) <= Len(a)
          /\ out[x] = SubSeq(a, 1, Len(out[x]))
          /\ Done(x) => out[x] = a

\* two scans of different texts, each between two of its clusters
C10_Witness ==
  /\ Calls = {1, 2}
  /\ w[1] # w[2]
  /\ \A x \in Calls :
       out[x] # <<>> /\ pc[x] = "run" /\ p[x] < Len(w[x])

====
